---- MODULE Spec2Model ----
(***************************************************************************)
(* The generic parser operator of pkg/stanza/operator/helper/parser.go:    *)
(* ParserConfig.Build, ParserOperator.ProcessWithCallback and ParseWith.   *)
(* One call of ProcessWithCallback is run as a sequence of steps, one per  *)
(* statement group of the source, driven by pc.                            *)
(***************************************************************************)
EXTENDS Integers, Sequences, FiniteSets, TLC

(* Number of entries the pipeline driver feeds to the stage, one at a time. *)
MaxCalls == 2

(***************************************************************************)
(* Semi-structured values.  A value is a function from the paths present   *)
(* in it (sequences of keys, <<>> being the value itself) to "MAP" for a   *)
(* mapping node or to the scalar held at that path.                        *)
(***************************************************************************)
Scalar(s) == (<< >> :> s)

EmptyMap == (<< >> :> "MAP")

IsPrefix(p, r) ==
    /\ Len(p) <= Len(r)
    /\ SubSeq(r, 1, Len(p)) = p

(* The value found at path p of t (the empty function when p is absent). *)
SubTree(t, p) ==
    LET under == {r \in DOMAIN t : IsPrefix(p, r)}
        rel(r) == SubSeq(r, Len(p) + 1, Len(r))
    IN  [q \in {rel(r) : r \in under} |-> t[p \o q]]

(* t with value v grafted at path p, intermediate mappings created. *)
Graft(t, p, v) ==
    LET kept == {r \in DOMAIN t : ~IsPrefix(p, r)}
        inter == {SubSeq(p, 1, i) : i \in 0..(Len(p) - 1)}
        new == {p \o q : q \in DOMAIN v}
    IN  [r \in kept \cup inter \cup new |->
            IF r \in new THEN v[SubSeq(r, Len(p) + 1, Len(r))]
            ELSE IF r \in inter THEN "MAP"
            ELSE t[r]]

(* A mapping with the single key k holding value v. *)
MapOf(k, v) == Graft(EmptyMap, <<k>>, v)

(* An existing non-mapping value blocks the descent along p. *)
Blocked(t, p) ==
    \E i \in 0..(Len(p) - 1) :
        /\ SubSeq(p, 1, i) \in DOMAIN t
        /\ t[SubSeq(p, 1, i)] # "MAP"

(***************************************************************************)
(* Errors are sequences of strings: <<>> is nil, Wrap prepends a context.  *)
(***************************************************************************)
Nil == << >>

Wrap(err, context) == <<context>> \o err

(***************************************************************************)
(* Entry and Field (pkg/stanza/entry).                                     *)
(***************************************************************************)
BodyField(path) == [c |-> "body", path |-> path]

AttributeField(path) == [c |-> "attributes", path |-> path]

ResourceField(path) == [c |-> "resource", path |-> path]

NewEntry(body, attributes, resource, slots) ==
    [body |-> body, attributes |-> attributes, resource |-> resource,
     timestamp |-> slots[1], severity |-> slots[2],
     trace |-> slots[3], scope |-> slots[4]]

(* entry.Get(field): the value and whether it was found; the entry is not touched. *)
Get(e, f) ==
    [ok |-> f.path \in DOMAIN e[f.c], val |-> SubTree(e[f.c], f.path)]

(* entry.Set replacing whatever stands in the way of the path. *)
Set_Overwrite(e, f, v) ==
    [err |-> Nil, e |-> [e EXCEPT ![f.c] = Graft(e[f.c], f.path, v)]]

(* entry.Set(field, value): the error and the entry after the call. *)
Set(e, f, v) ==
    IF Blocked(e[f.c], f.path)
    THEN [err |-> <<"SetFieldError: blocked">>, e |-> e]
    ELSE [err |-> Nil, e |-> [e EXCEPT ![f.c] = Graft(e[f.c], f.path, v)]]

(* t without the value at path p (entry.Delete). *)
Prune(t, p) == [r \in {r \in DOMAIN t : ~IsPrefix(p, r)} |-> t[r]]

(***************************************************************************)
(* External collaborators of the parser stage.                             *)
(***************************************************************************)
(* The raw scalars the parse function understands, and its result for each:*)
(* a mapping with the keys ts, sev, tr, sc; "bad" is a value no sub-parser *)
(* accepts.                                                                *)
Parsed(ts, sev, tr, sc) ==
    Graft(Graft(Graft(Graft(EmptyMap, <<"ts">>, Scalar(ts)),
                      <<"sev">>, Scalar(sev)),
                <<"tr">>, Scalar(tr)),
          <<"sc">>, Scalar(sc))

(* The concrete parse function, value -> (value, error): pure. *)
ParseFn(v) ==
    LET raw == v[<< >>]
    IN  CASE raw = "r_all" -> [err |-> Nil, val |-> Parsed("v1", "v1", "v1", "v1")]
          [] raw = "r_t" -> [err |-> Nil, val |-> Parsed("bad", "v2", "v1", "v2")]
          [] raw = "r_ts" -> [err |-> Nil, val |-> Parsed("bad", "bad", "v2", "v1")]
          [] raw = "r_s" -> [err |-> Nil, val |-> Parsed("v2", "bad", "v1", "v1")]
          [] raw = "r_rc" -> [err |-> Nil, val |-> Parsed("v1", "v1", "bad", "bad")]
          [] OTHER -> [err |-> <<"ParseFunctionError">>, val |-> SubTree(v, <<"none">>)]

(* What each sub-parser makes of the scalar it reads. *)
Conversion ==
    [timestamp |-> [v1 |-> "2021-01-01T00:00:00Z", v2 |-> "2022-02-02T00:00:00Z"],
     severity |-> [v1 |-> "Error", v2 |-> "Info"],
     trace |-> [v1 |-> "trace-01", v2 |-> "trace-02"],
     scope |-> [v1 |-> "scope-one", v2 |-> "scope-two"]]

SubParserError ==
    [timestamp |-> "TimeParseError", severity |-> "SeverityParseError",
     trace |-> "TraceParseError", scope |-> "ScopeNameParseError"]

(* Sub-parser contract Parse(entry) -> error: reads its own field; on      *)
(* success sets its slot, on failure leaves the entry as it was.           *)
SubParse(slot, sp, e) ==
    LET g == Get(e, sp.ParseFrom)
    IN  IF ~g.ok
        THEN [err |-> <<SubParserError[slot], "missing">>, e |-> e]
        ELSE IF g.val[<< >>] \notin DOMAIN Conversion[slot]
        THEN [err |-> <<SubParserError[slot], "invalid">>, e |-> e]
        ELSE [err |-> Nil, e |-> [e EXCEPT ![slot] = Conversion[slot][g.val[<< >>]]]]

(* TransformerOperator.Skip: evaluates the "if" expression on the entry;   *)
(* the operator skips the entry when the expression is false.              *)
Skip(op, e) ==
    IF op.IfExpr = "none"
    THEN [skip |-> FALSE, err |-> Nil]
    ELSE LET g == Get(e, ResourceField(<<"host">>))
         IN  IF ~g.ok
             THEN [skip |-> FALSE, err |-> <<"SkipError">>]
             ELSE [skip |-> g.val[<< >>] # "v1", err |-> Nil]

(* The post-parse callback, a function from the entry pointer to an error, by kind. *)
RunCallback(kind, e) ==
    CASE kind = "ok" -> [err |-> Nil, e |-> e]
      [] kind = "edit" ->
            [err |-> Nil, e |-> [e EXCEPT !.attributes = Prune(@, <<"ts">>)]]
      [] OTHER -> [err |-> <<"CallbackError">>, e |-> e]

(***************************************************************************)
(* Configuration and Build.                                                *)
(***************************************************************************)
(* A nil sub-parser pointer, and a configured sub-parser reading field f. *)
NoParser == [set |-> FALSE, ParseFrom |-> BodyField(<< >>), valid |-> TRUE]

SubConfig(f, valid) == [set |-> TRUE, ParseFrom |-> f, valid |-> valid]

NewParserConfig ==
    [transformerValid |-> TRUE, OnError |-> "send", IfExpr |-> "none",
     ParseFrom |-> BodyField(<< >>),
     ParseTo |-> AttributeField(<< >>),
     TimeParser |-> NoParser, Config |-> NoParser,
     TraceParser |-> NoParser, ScopeNameParser |-> NoParser]

(* ParserOperator{}: the zero operator returned with a build error. *)
ZeroOperator ==
    [OnError |-> "", IfExpr |-> "none",
     ParseFrom |-> BodyField(<< >>), ParseTo |-> BodyField(<< >>),
     TimeParser |-> NoParser, SeverityParser |-> NoParser,
     TraceParser |-> NoParser, ScopeNameParser |-> NoParser]

Build(c) ==
    IF ~c.transformerValid
    THEN [op |-> ZeroOperator, err |-> <<"invalid transformer config">>]
    ELSE IF c.TimeParser.set /\ ~c.TimeParser.valid
    THEN [op |-> ZeroOperator, err |-> <<"invalid timestamp config">>]
    ELSE IF c.Config.set /\ ~c.Config.valid
    THEN [op |-> ZeroOperator, err |-> <<"invalid severity config">>]
    ELSE IF c.TraceParser.set /\ ~c.TraceParser.valid
    THEN [op |-> ZeroOperator, err |-> <<"invalid trace config">>]
    ELSE [op |-> [OnError |-> c.OnError, IfExpr |-> c.IfExpr,
                  ParseFrom |-> c.ParseFrom, ParseTo |-> c.ParseTo,
                  TimeParser |-> c.TimeParser,
                  SeverityParser |-> c.Config,
                  TraceParser |-> c.TraceParser,
                  ScopeNameParser |-> c.ScopeNameParser],
          err |-> Nil]

(* The configurations the pipeline is built from. *)
OnErrors == {"send", "drop", "drop_quiet"}

IfExprs == {"none", "resource.host == v1"}

ParseFroms == {BodyField(<< >>), BodyField(<<"msg">>)}

ParseTos == {AttributeField(<< >>), AttributeField(<<"ts", "x">>), ResourceField(<<"p">>)}

TimeConfigs == {NoParser, SubConfig(AttributeField(<<"ts">>), TRUE)}

SeverityConfigs == {NoParser, SubConfig(AttributeField(<<"sev">>), TRUE)}

TraceConfigs == {NoParser, SubConfig(AttributeField(<<"tr">>), TRUE)}

ScopeNameConfigs == {NoParser, SubConfig(AttributeField(<<"sc">>), TRUE)}

(* Every on_error and combination of sub-parsers, on the default          *)
(* parse_from and parse_to and without an "if" expression.                *)
CoreConfigs ==
    {[NewParserConfig EXCEPT !.OnError = oe,
                             !.TimeParser = t, !.Config = s,
                             !.TraceParser = tr, !.ScopeNameParser = sc] :
        oe \in OnErrors,
        t \in TimeConfigs, s \in SeverityConfigs,
        tr \in TraceConfigs, sc \in ScopeNameConfigs}

(* No sub-parser, the time parser alone, or all four. *)
SubParserChoices ==
    {[NewParserConfig EXCEPT !.TimeParser = t, !.Config = s,
                             !.TraceParser = s, !.ScopeNameParser = s] :
        t \in TimeConfigs, s \in {NoParser}}
    \cup {[NewParserConfig EXCEPT
              !.TimeParser = SubConfig(AttributeField(<<"ts">>), TRUE),
              !.Config = SubConfig(AttributeField(<<"sev">>), TRUE),
              !.TraceParser = SubConfig(AttributeField(<<"tr">>), TRUE),
              !.ScopeNameParser = SubConfig(AttributeField(<<"sc">>), TRUE)]}

(* Operators with an "if" expression, and operators parsing from body.msg. *)
GatedConfigs ==
    {[c EXCEPT !.OnError = oe, !.IfExpr = ie, !.ParseFrom = pf] :
        c \in SubParserChoices, oe \in OnErrors,
        ie \in IfExprs \ {"none"}, pf \in {BodyField(<< >>)}}

NestedSourceConfigs ==
    {[c EXCEPT !.OnError = oe, !.IfExpr = ie, !.ParseFrom = pf] :
        c \in SubParserChoices, oe \in OnErrors,
        ie \in {"none"}, pf \in ParseFroms \ {BodyField(<< >>)}}

(* Operators writing somewhere else than the attributes root. *)
OtherTargetConfigs ==
    {[c EXCEPT !.OnError = oe, !.ParseTo = pt] :
        c \in SubParserChoices, oe \in OnErrors,
        pt \in ParseTos \ {AttributeField(<< >>)}}

ValidConfigs ==
    CoreConfigs \cup GatedConfigs \cup NestedSourceConfigs \cup OtherTargetConfigs

InvalidConfigs ==
    {[NewParserConfig EXCEPT !.transformerValid = FALSE],
     [NewParserConfig EXCEPT !.TimeParser = SubConfig(AttributeField(<<"ts">>), FALSE)],
     [NewParserConfig EXCEPT !.Config = SubConfig(AttributeField(<<"sev">>), FALSE)],
     [NewParserConfig EXCEPT !.TraceParser = SubConfig(AttributeField(<<"tr">>), FALSE)],
     [NewParserConfig EXCEPT
         !.ScopeNameParser = SubConfig(AttributeField(<<"sc">>), FALSE)]}

Configs == ValidConfigs \cup InvalidConfigs

(***************************************************************************)
(* The entries the driver may hand to the stage.                           *)
(***************************************************************************)
Unset == <<"unset", "unset", "unset", "unset">>

Preset == <<"1999-09-09T00:00:00Z", "Debug", "trace-00", "scope-zero">>

Host(h) == MapOf("host", Scalar(h))

Entries ==
    {NewEntry(Scalar(r), EmptyMap, Host("v1"), Unset) :
        r \in {"r_all", "r_t", "r_ts", "r_s", "r_rc", "r_err"}}
    \cup {NewEntry(Scalar(r), MapOf("ts", Scalar("v2")), Host("v1"), Preset) :
        r \in {"r_all", "r_t", "r_rc"}}
    \cup {NewEntry(Scalar("r_all"), EmptyMap, h, Unset) : h \in {EmptyMap, Host("v2")}}
    \cup {NewEntry(MapOf("msg", Scalar(r)), EmptyMap, Host("v1"), Unset) :
        r \in {"r_all", "r_ts"}}

Callbacks == {"nil", "ok", "edit", "fail"}

NoValue == SubTree(EmptyMap, <<"absent">>)

Pending == <<"pending">>

(***************************************************************************)
(* State.                                                                  *)
(***************************************************************************)
VARIABLES
    config,             \* the ParserConfig handed to Build
    other,              \* the call that is not running: a second goroutine's
                        \* call on the same operator, when there is one
    p,                  \* the built ParserOperator
    buildErr,           \* the error Build returned
    pc,                 \* position in ProcessWithCallback / ParseWith
    n,                  \* number of calls entered; the id of the current entry
    entry,              \* the entry the call works on
    entry0,             \* the entry as it was when the call was entered
    cb,                 \* the callback argument of the call
    value,              \* local of ParseWith
    newValue,           \* local of ParseWith
    timeParseErr,       \* local of ParseWith
    severityParseErr,   \* local of ParseWith
    traceParseErr,      \* local of ParseWith
    scopeNameParserErr, \* local of ParseWith
    err,                \* local of ProcessWithCallback
    ret,                \* the error the call returned
    ev,                 \* collaborators invoked by the call, in order
    handled,            \* errors passed to HandleEntryError by the call
    logs,               \* log lines written by the call
    fwd,                \* entries the call handed to the next stage
    out                 \* ids of the entries received by the next stage

(* The place of the second call while only one goroutine uses the operator. *)
NoCall == [pc |-> "idle"]

locals == <<value, newValue, timeParseErr, severityParseErr, traceParseErr,
            scopeNameParserErr, err>>

policy == <<handled, logs, fwd, out>>

vars == <<config, other, p, buildErr, pc, n, entry, entry0, cb, locals, ret, ev, policy>>

Init ==
    /\ \E c \in Configs :
        /\ config = c
        /\ p = Build(c).op
        /\ buildErr = Build(c).err
    /\ pc = "idle"
    /\ n = 0
    /\ entry = NewEntry(EmptyMap, EmptyMap, EmptyMap, Unset)
    /\ entry0 = entry
    /\ cb = "nil"
    /\ value = NoValue
    /\ newValue = NoValue
    /\ timeParseErr = Nil
    /\ severityParseErr = Nil
    /\ traceParseErr = Nil
    /\ scopeNameParserErr = Nil
    /\ err = Nil
    /\ ret = Pending
    /\ ev = << >>
    /\ handled = << >>
    /\ logs = 0
    /\ fwd = << >>
    /\ out = << >>
    /\ other = NoCall

(***************************************************************************)
(* WriterOperator.Write and TransformerOperator.HandleEntryError, as the   *)
(* effect they have within a step.                                         *)
(***************************************************************************)
Write ==
    /\ fwd' = Append(fwd, entry)
    /\ out' = Append(out, n)

HandleEntryError(e) ==
    /\ handled' = Append(handled, e)
    /\ logs' = IF p.OnError = "drop_quiet" THEN logs ELSE logs + 1
    /\ IF p.OnError = "send" THEN Write ELSE UNCHANGED <<fwd, out>>

(* The error HandleEntryError hands back to its caller. *)
HandleEntryErrorResult(e) == e

(***************************************************************************)
(* The driver enters ProcessWithCallback with the next entry.              *)
(***************************************************************************)
StartCall ==
    /\ pc \in {"idle", "done"}
    /\ buildErr = Nil
    /\ n < MaxCalls
    /\ \E e \in Entries, k \in Callbacks :
        /\ entry' = e
        /\ entry0' = e
        /\ cb' = k
    /\ n' = n + 1
    /\ pc' = "skip"
    /\ value' = NoValue
    /\ newValue' = NoValue
    /\ timeParseErr' = Nil
    /\ severityParseErr' = Nil
    /\ traceParseErr' = Nil
    /\ scopeNameParserErr' = Nil
    /\ err' = Nil
    /\ ret' = Pending
    /\ ev' = << >>
    /\ handled' = << >>
    /\ logs' = 0
    /\ fwd' = << >>
    /\ UNCHANGED <<config, other, p, buildErr, out>>

(***************************************************************************)
(* ProcessWithCallback, first part: the skip gate.                         *)
(***************************************************************************)
(* SkipStep without the return after the Write of a skipped entry. *)
SkipStep_NoReturn ==
    /\ pc = "skip"
    /\ ev' = Append(ev, "skip")
    /\ LET r == Skip(p, entry)
       IN  IF r.err # Nil
           THEN /\ HandleEntryError(r.err)
                /\ ret' = HandleEntryErrorResult(r.err)
                /\ pc' = "done"
           ELSE IF r.skip
           THEN /\ Write
                /\ pc' = "get"
                /\ UNCHANGED <<ret, handled, logs>>
           ELSE /\ pc' = "get"
                /\ UNCHANGED <<ret, policy>>
    /\ UNCHANGED <<config, other, p, buildErr, n, entry, entry0, cb, locals>>

(* SkipStep going on to parse when the skip condition cannot be evaluated. *)
SkipStep_IgnoreError ==
    /\ pc = "skip"
    /\ ev' = Append(ev, "skip")
    /\ LET r == Skip(p, entry)
       IN  IF r.err = Nil /\ r.skip
           THEN /\ Write
                /\ ret' = Nil
                /\ pc' = "done"
                /\ UNCHANGED <<handled, logs>>
           ELSE /\ pc' = "get"
                /\ UNCHANGED <<ret, policy>>
    /\ UNCHANGED <<config, other, p, buildErr, n, entry, entry0, cb, locals>>

SkipStep ==
    /\ pc = "skip"
    /\ ev' = Append(ev, "skip")
    /\ LET r == Skip(p, entry)
       IN  IF r.err # Nil
           THEN /\ HandleEntryError(r.err)
                /\ ret' = HandleEntryErrorResult(r.err)
                /\ pc' = "done"
           ELSE IF r.skip
           THEN /\ Write
                /\ ret' = Nil
                /\ pc' = "done"
                /\ UNCHANGED <<handled, logs>>
           ELSE /\ pc' = "get"
                /\ UNCHANGED <<ret, policy>>
    /\ UNCHANGED <<config, other, p, buildErr, n, entry, entry0, cb, locals>>

(***************************************************************************)
(* ParseWith.                                                              *)
(***************************************************************************)
(* GetStep returning the missing-field error without HandleEntryError. *)
GetStep_NoPolicy ==
    /\ pc = "get"
    /\ ev' = Append(ev, "get")
    /\ LET g == Get(entry, p.ParseFrom)
       IN  /\ value' = g.val
           /\ IF ~g.ok
              THEN /\ err' = <<"MissingField">>
                   /\ pc' = "parsed"
                   /\ UNCHANGED policy
              ELSE /\ pc' = "parse"
                   /\ UNCHANGED <<err, policy>>
    /\ UNCHANGED <<config, other, p, buildErr, n, entry, entry0, cb, newValue, timeParseErr,
                   severityParseErr, traceParseErr, scopeNameParserErr, ret>>

GetStep ==
    /\ pc = "get"
    /\ ev' = Append(ev, "get")
    /\ LET g == Get(entry, p.ParseFrom)
       IN  /\ value' = g.val
           /\ IF ~g.ok
              THEN /\ HandleEntryError(<<"MissingField">>)
                   /\ err' = HandleEntryErrorResult(<<"MissingField">>)
                   /\ pc' = "parsed"
              ELSE /\ pc' = "parse"
                   /\ UNCHANGED <<err, policy>>
    /\ UNCHANGED <<config, other, p, buildErr, n, entry, entry0, cb, newValue, timeParseErr,
                   severityParseErr, traceParseErr, scopeNameParserErr, ret>>

(* ParseStep returning the parse function's error without the error policy. *)
ParseStep_NoPolicy ==
    /\ pc = "parse"
    /\ ev' = Append(ev, "parse")
    /\ LET r == ParseFn(value)
       IN  /\ newValue' = r.val
           /\ IF r.err # Nil
              THEN /\ err' = r.err
                   /\ pc' = "parsed"
              ELSE /\ pc' = "set"
                   /\ UNCHANGED err
    /\ UNCHANGED <<config, other, p, buildErr, n, entry, entry0, cb, value, timeParseErr,
                   severityParseErr, traceParseErr, scopeNameParserErr, ret, policy>>

(* ParseStep that falls back to writing the unparsed value to parse_to    *)
(* when the parse function fails.                                         *)
ParseStep_SetFirst ==
    /\ pc = "parse"
    /\ ev' = Append(ev, "parse")
    /\ LET r == ParseFn(value)
       IN  /\ newValue' = r.val
           /\ IF r.err # Nil
              THEN /\ entry' = Set(entry, p.ParseTo, value).e
                   /\ HandleEntryError(r.err)
                   /\ err' = HandleEntryErrorResult(r.err)
                   /\ pc' = "parsed"
              ELSE /\ pc' = "set"
                   /\ UNCHANGED <<entry, err, policy>>
    /\ UNCHANGED <<config, other, p, buildErr, n, entry0, cb, value, timeParseErr,
                   severityParseErr, traceParseErr, scopeNameParserErr, ret>>

ParseStep ==
    /\ pc = "parse"
    /\ ev' = Append(ev, "parse")
    /\ LET r == ParseFn(value)
       IN  /\ newValue' = r.val
           /\ IF r.err # Nil
              THEN /\ HandleEntryError(r.err)
                   /\ err' = HandleEntryErrorResult(r.err)
                   /\ pc' = "parsed"
              ELSE /\ pc' = "set"
                   /\ UNCHANGED <<err, policy>>
    /\ UNCHANGED <<config, other, p, buildErr, n, entry, entry0, cb, value, timeParseErr,
                   severityParseErr, traceParseErr, scopeNameParserErr, ret>>

(* SetStep writing the parse result to the resource field of the same path. *)
SetStep_ResourceField ==
    /\ pc = "set"
    /\ ev' = Append(ev, "set")
    /\ LET r == Set(entry, ResourceField(p.ParseTo.path), newValue)
       IN  /\ entry' = r.e
           /\ IF r.err # Nil
              THEN /\ HandleEntryError(Wrap(r.err, "set parse_to"))
                   /\ err' = HandleEntryErrorResult(Wrap(r.err, "set parse_to"))
                   /\ pc' = "parsed"
              ELSE /\ pc' = "time"
                   /\ UNCHANGED <<err, policy>>
    /\ UNCHANGED <<config, other, p, buildErr, n, entry0, cb, value, newValue, timeParseErr,
                   severityParseErr, traceParseErr, scopeNameParserErr, ret>>

(* SetStep going on to the sub-parsers whatever Set returned. *)
SetStep_IgnoreError ==
    /\ pc = "set"
    /\ ev' = Append(ev, "set")
    /\ entry' = Set(entry, p.ParseTo, newValue).e
    /\ pc' = "time"
    /\ UNCHANGED <<config, other, p, buildErr, n, entry0, cb, value, newValue, timeParseErr,
                   severityParseErr, traceParseErr, scopeNameParserErr, err, ret, policy>>

SetStep ==
    /\ pc = "set"
    /\ ev' = Append(ev, "set")
    /\ LET r == Set(entry, p.ParseTo, newValue)
       IN  /\ entry' = r.e
           /\ IF r.err # Nil
              THEN /\ HandleEntryError(Wrap(r.err, "set parse_to"))
                   /\ err' = HandleEntryErrorResult(Wrap(r.err, "set parse_to"))
                   /\ pc' = "parsed"
              ELSE /\ pc' = "time"
                   /\ UNCHANGED <<err, policy>>
    /\ UNCHANGED <<config, other, p, buildErr, n, entry0, cb, value, newValue, timeParseErr,
                   severityParseErr, traceParseErr, scopeNameParserErr, ret>>

(* TimeStep returning the time parser's error at once. *)
TimeStep_EarlyReturn ==
    /\ pc = "time"
    /\ IF p.TimeParser.set
       THEN LET r == SubParse("timestamp", p.TimeParser, entry)
            IN  /\ timeParseErr' = r.err
                /\ entry' = r.e
                /\ ev' = Append(ev, "time")
                /\ IF r.err # Nil
                   THEN /\ HandleEntryError(Wrap(r.err, "time parser"))
                        /\ err' = HandleEntryErrorResult(Wrap(r.err, "time parser"))
                        /\ pc' = "parsed"
                   ELSE /\ pc' = "severity"
                        /\ UNCHANGED <<err, policy>>
       ELSE /\ pc' = "severity"
            /\ UNCHANGED <<timeParseErr, entry, ev, err, policy>>
    /\ UNCHANGED <<config, other, p, buildErr, n, entry0, cb, value, newValue, severityParseErr,
                   traceParseErr, scopeNameParserErr, ret>>

(* TimeStep switching the operator's time parser off once it has failed. *)
TimeStep_DisablesOnFailure ==
    /\ pc = "time"
    /\ IF p.TimeParser.set
       THEN LET r == SubParse("timestamp", p.TimeParser, entry)
            IN  /\ timeParseErr' = r.err
                /\ entry' = r.e
                /\ ev' = Append(ev, "time")
                /\ p' = IF r.err # Nil THEN [p EXCEPT !.TimeParser = NoParser] ELSE p
       ELSE UNCHANGED <<timeParseErr, entry, ev, p>>
    /\ pc' = "severity"
    /\ UNCHANGED <<config, other, buildErr, n, entry0, cb, value, newValue, severityParseErr,
                   traceParseErr, scopeNameParserErr, err, ret, policy>>

TimeStep ==
    /\ pc = "time"
    /\ IF p.TimeParser.set
       THEN LET r == SubParse("timestamp", p.TimeParser, entry)
            IN  /\ timeParseErr' = r.err
                /\ entry' = r.e
                /\ ev' = Append(ev, "time")
       ELSE UNCHANGED <<timeParseErr, entry, ev>>
    /\ pc' = "severity"
    /\ UNCHANGED <<config, other, p, buildErr, n, entry0, cb, value, newValue, severityParseErr,
                   traceParseErr, scopeNameParserErr, err, ret, policy>>

(* SeverityStep calling the time parser in place of the severity parser. *)
SeverityStep_CallsTimeParser ==
    /\ pc = "severity"
    /\ IF p.SeverityParser.set
       THEN LET r == SubParse("timestamp", p.TimeParser, entry)
            IN  /\ severityParseErr' = r.err
                /\ entry' = r.e
                /\ ev' = Append(ev, "severity")
       ELSE UNCHANGED <<severityParseErr, entry, ev>>
    /\ pc' = "trace"
    /\ UNCHANGED <<config, other, p, buildErr, n, entry0, cb, value, newValue, timeParseErr,
                   traceParseErr, scopeNameParserErr, err, ret, policy>>

SeverityStep ==
    /\ pc = "severity"
    /\ IF p.SeverityParser.set
       THEN LET r == SubParse("severity", p.SeverityParser, entry)
            IN  /\ severityParseErr' = r.err
                /\ entry' = r.e
                /\ ev' = Append(ev, "severity")
       ELSE UNCHANGED <<severityParseErr, entry, ev>>
    /\ pc' = "trace"
    /\ UNCHANGED <<config, other, p, buildErr, n, entry0, cb, value, newValue, timeParseErr,
                   traceParseErr, scopeNameParserErr, err, ret, policy>>

TraceStep ==
    /\ pc = "trace"
    /\ IF p.TraceParser.set
       THEN LET r == SubParse("trace", p.TraceParser, entry)
            IN  /\ traceParseErr' = r.err
                /\ entry' = r.e
                /\ ev' = Append(ev, "trace")
       ELSE UNCHANGED <<traceParseErr, entry, ev>>
    /\ pc' = "scope"
    /\ UNCHANGED <<config, other, p, buildErr, n, entry0, cb, value, newValue, timeParseErr,
                   severityParseErr, scopeNameParserErr, err, ret, policy>>

ScopeNameStep ==
    /\ pc = "scope"
    /\ IF p.ScopeNameParser.set
       THEN LET r == SubParse("scope", p.ScopeNameParser, entry)
            IN  /\ scopeNameParserErr' = r.err
                /\ entry' = r.e
                /\ ev' = Append(ev, "scope")
       ELSE UNCHANGED <<scopeNameParserErr, entry, ev>>
    /\ pc' = "reconcile"
    /\ UNCHANGED <<config, other, p, buildErr, n, entry0, cb, value, newValue, timeParseErr,
                   severityParseErr, traceParseErr, err, ret, policy>>

(* ReportedError with the severity check placed before the time check. *)
ReportedError_SeverityFirst(t, s, tr, sc) ==
    IF s # Nil THEN Wrap(s, "severity parser")
    ELSE IF t # Nil THEN Wrap(t, "time parser")
    ELSE IF tr # Nil THEN Wrap(tr, "trace parser")
    ELSE IF sc # Nil THEN Wrap(sc, "scope_name parser")
    ELSE Nil

(* The error ParseWith reports once every sub-parser has run. *)
ReportedError(t, s, tr, sc) ==
    IF t # Nil THEN Wrap(t, "time parser")
    ELSE IF s # Nil THEN Wrap(s, "severity parser")
    ELSE IF tr # Nil THEN Wrap(tr, "trace parser")
    ELSE IF sc # Nil THEN Wrap(sc, "scope_name parser")
    ELSE Nil

(* ReconcileStep returning the wrapped error without HandleEntryError. *)
ReconcileStep_NoPolicy ==
    /\ pc = "reconcile"
    /\ err' = ReportedError(timeParseErr, severityParseErr,
                            traceParseErr, scopeNameParserErr)
    /\ pc' = "parsed"
    /\ UNCHANGED <<config, other, p, buildErr, n, entry, entry0, cb, value, newValue, timeParseErr,
                   severityParseErr, traceParseErr, scopeNameParserErr, ret, ev,
                   policy>>

ReconcileStep ==
    /\ pc = "reconcile"
    /\ LET e == ReportedError(timeParseErr, severityParseErr,
                              traceParseErr, scopeNameParserErr)
       IN  IF e # Nil
           THEN /\ HandleEntryError(e)
                /\ err' = HandleEntryErrorResult(e)
           ELSE /\ err' = Nil
                /\ UNCHANGED policy
    /\ pc' = "parsed"
    /\ UNCHANGED <<config, other, p, buildErr, n, entry, entry0, cb, value, newValue, timeParseErr,
                   severityParseErr, traceParseErr, scopeNameParserErr, ret, ev>>

(***************************************************************************)
(* ProcessWithCallback, second part: after ParseWith has returned.         *)
(***************************************************************************)
(* ParsedStep that goes on to the callback whatever ParseWith returned. *)
ParsedStep_IgnoreErr ==
    /\ pc = "parsed"
    /\ pc' = "cb"
    /\ UNCHANGED <<config, other, p, buildErr, n, entry, entry0, cb, locals, ret, ev, policy>>

(* ParsedStep handing the error ParseWith returned to the policy again. *)
ParsedStep_HandleAgain ==
    /\ pc = "parsed"
    /\ IF err # Nil
       THEN /\ HandleEntryError(err)
            /\ ret' = HandleEntryErrorResult(err)
            /\ pc' = "done"
       ELSE /\ pc' = "cb"
            /\ UNCHANGED <<ret, policy>>
    /\ UNCHANGED <<config, other, p, buildErr, n, entry, entry0, cb, locals, ev>>

(* ParsedStep returning nil when ParseWith returned an error. *)
ParsedStep_SwallowErr ==
    /\ pc = "parsed"
    /\ IF err # Nil
       THEN /\ ret' = Nil
            /\ pc' = "done"
       ELSE /\ pc' = "cb"
            /\ UNCHANGED ret
    /\ UNCHANGED <<config, other, p, buildErr, n, entry, entry0, cb, locals, ev, policy>>

ParsedStep ==
    /\ pc = "parsed"
    /\ IF err # Nil
       THEN /\ ret' = err
            /\ pc' = "done"
       ELSE /\ pc' = "cb"
            /\ UNCHANGED ret
    /\ UNCHANGED <<config, other, p, buildErr, n, entry, entry0, cb, locals, ev, policy>>

(* CallbackStep that hands the callback's error to HandleEntryError. *)
CallbackStep_Policy ==
    /\ pc = "cb"
    /\ IF cb # "nil"
       THEN LET r == RunCallback(cb, entry)
            IN  /\ ev' = Append(ev, "cb")
                /\ entry' = r.e
                /\ err' = r.err
                /\ IF r.err # Nil
                   THEN /\ HandleEntryError(r.err)
                        /\ ret' = HandleEntryErrorResult(r.err)
                        /\ pc' = "done"
                   ELSE /\ pc' = "write"
                        /\ UNCHANGED <<ret, policy>>
       ELSE /\ pc' = "write"
            /\ UNCHANGED <<ev, entry, err, ret, policy>>
    /\ UNCHANGED <<config, other, p, buildErr, n, entry0, cb, value, newValue, timeParseErr,
                   severityParseErr, traceParseErr, scopeNameParserErr>>

(* CallbackStep returning whatever the callback returned, nil included. *)
CallbackStep_ReturnDirect ==
    /\ pc = "cb"
    /\ IF cb # "nil"
       THEN LET r == RunCallback(cb, entry)
            IN  /\ ev' = Append(ev, "cb")
                /\ entry' = r.e
                /\ err' = r.err
                /\ ret' = r.err
                /\ pc' = "done"
       ELSE /\ pc' = "write"
            /\ UNCHANGED <<ev, entry, err, ret>>
    /\ UNCHANGED <<config, other, p, buildErr, n, entry0, cb, value, newValue, timeParseErr,
                   severityParseErr, traceParseErr, scopeNameParserErr, policy>>

CallbackStep ==
    /\ pc = "cb"
    /\ IF cb # "nil"
       THEN LET r == RunCallback(cb, entry)
            IN  /\ ev' = Append(ev, "cb")
                /\ entry' = r.e
                /\ err' = r.err
                /\ IF r.err # Nil
                   THEN /\ ret' = r.err
                        /\ pc' = "done"
                   ELSE /\ pc' = "write"
                        /\ UNCHANGED ret
       ELSE /\ pc' = "write"
            /\ UNCHANGED <<ev, entry, err, ret>>
    /\ UNCHANGED <<config, other, p, buildErr, n, entry0, cb, value, newValue, timeParseErr,
                   severityParseErr, traceParseErr, scopeNameParserErr, policy>>

WriteStep ==
    /\ pc = "write"
    /\ Write
    /\ ret' = Nil
    /\ pc' = "done"
    /\ UNCHANGED <<config, other, p, buildErr, n, entry, entry0, cb, locals, ev, handled, logs>>

Next ==
    \/ StartCall
    \/ SkipStep
    \/ GetStep
    \/ ParseStep
    \/ SetStep
    \/ TimeStep
    \/ SeverityStep
    \/ TraceStep
    \/ ScopeNameStep
    \/ ReconcileStep
    \/ ParsedStep
    \/ CallbackStep
    \/ WriteStep

Spec == Init /\ [][Next]_vars

(* A call that has been entered keeps running: the goroutine executing it  *)
(* is scheduled until ProcessWithCallback returns.                         *)
Steps ==
    \/ SkipStep
    \/ GetStep
    \/ ParseStep
    \/ SetStep
    \/ TimeStep
    \/ SeverityStep
    \/ TraceStep
    \/ ScopeNameStep
    \/ ReconcileStep
    \/ ParsedStep
    \/ CallbackStep
    \/ WriteStep

SpecLive == Init /\ [][Next]_vars /\ WF_vars(Steps)

(***************************************************************************)
(* Two goroutines calling ProcessWithCallback on one ParserOperator, each  *)
(* with its own entry.  The variables hold the call that is running and    *)
(* "other" holds the call that is not; Yield hands the processor over, at  *)
(* any step.  The operator p and the next stage (out) are what they share. *)
(***************************************************************************)
Call(id, e, k) ==
    [pc |-> "skip", n |-> id, entry |-> e, entry0 |-> e, cb |-> k,
     value |-> NoValue, newValue |-> NoValue,
     timeParseErr |-> Nil, severityParseErr |-> Nil, traceParseErr |-> Nil,
     scopeNameParserErr |-> Nil, err |-> Nil, ret |-> Pending,
     ev |-> << >>, handled |-> << >>, logs |-> 0, fwd |-> << >>]

Running ==
    [pc |-> pc, n |-> n, entry |-> entry, entry0 |-> entry0, cb |-> cb,
     value |-> value, newValue |-> newValue,
     timeParseErr |-> timeParseErr, severityParseErr |-> severityParseErr,
     traceParseErr |-> traceParseErr, scopeNameParserErr |-> scopeNameParserErr,
     err |-> err, ret |-> ret,
     ev |-> ev, handled |-> handled, logs |-> logs, fwd |-> fwd]

Resume(c) ==
    /\ pc' = c.pc
    /\ n' = c.n
    /\ entry' = c.entry
    /\ entry0' = c.entry0
    /\ cb' = c.cb
    /\ value' = c.value
    /\ newValue' = c.newValue
    /\ timeParseErr' = c.timeParseErr
    /\ severityParseErr' = c.severityParseErr
    /\ traceParseErr' = c.traceParseErr
    /\ scopeNameParserErr' = c.scopeNameParserErr
    /\ err' = c.err
    /\ ret' = c.ret
    /\ ev' = c.ev
    /\ handled' = c.handled
    /\ logs' = c.logs
    /\ fwd' = c.fwd

(* The operators, entries and callbacks of the concurrent runs. *)
SharedConfigs ==
    {c \in CoreConfigs :
        /\ c.OnError \in {"send", "drop"}
        /\ c.TimeParser.set /\ c.Config.set /\ c.TraceParser.set
        /\ c.ScopeNameParser.set}
    \cup {c \in GatedConfigs : c.OnError = "send" /\ c.Config.set}
    \cup {c \in OtherTargetConfigs :
            /\ c.TimeParser.set /\ ~c.Config.set
            /\ \/ c.OnError = "send" /\ c.ParseTo = ResourceField(<<"p">>)
               \/ c.OnError = "drop_quiet" /\ c.ParseTo = AttributeField(<<"ts", "x">>)}

SharedEntries ==
    <<NewEntry(Scalar("r_all"), EmptyMap, Host("v1"), Unset),
      NewEntry(Scalar("r_t"), EmptyMap, Host("v1"), Unset),
      NewEntry(Scalar("r_t"), MapOf("ts", Scalar("v2")), Host("v1"), Preset),
      NewEntry(Scalar("r_all"), EmptyMap, Host("v2"), Unset),
      NewEntry(Scalar("r_err"), EmptyMap, Host("v1"), Unset)>>

SharedCallbacks == {"nil", "edit", "fail"}

InitShared ==
    /\ \E c \in SharedConfigs :
        /\ config = c
        /\ p = Build(c).op
        /\ buildErr = Build(c).err
    /\ pc = "idle"
    /\ n = 0
    /\ entry = NewEntry(EmptyMap, EmptyMap, EmptyMap, Unset)
    /\ entry0 = entry
    /\ cb = "nil"
    /\ value = NoValue
    /\ newValue = NoValue
    /\ timeParseErr = Nil
    /\ severityParseErr = Nil
    /\ traceParseErr = Nil
    /\ scopeNameParserErr = Nil
    /\ err = Nil
    /\ ret = Pending
    /\ ev = << >>
    /\ handled = << >>
    /\ logs = 0
    /\ fwd = << >>
    /\ out = << >>
    /\ other = NoCall

(* Both goroutines enter ProcessWithCallback. *)
StartCalls ==
    /\ pc = "idle"
    /\ buildErr = Nil
    /\ \E i \in DOMAIN SharedEntries, j \in DOMAIN SharedEntries,
          k \in SharedCallbacks, l \in SharedCallbacks :
        /\ i <= j
        /\ Resume(Call(1, SharedEntries[i], k))
        /\ other' = Call(2, SharedEntries[j], l)
    /\ UNCHANGED <<config, p, buildErr, out>>

(* The scheduler runs the other goroutine. *)
Yield ==
    /\ other.pc \notin {"idle", "done"}
    /\ pc # "idle"
    /\ Resume(other)
    /\ other' = Running
    /\ UNCHANGED <<config, p, buildErr, out>>

NextShared ==
    \/ StartCalls
    \/ Yield
    \/ SkipStep
    \/ GetStep
    \/ ParseStep
    \/ SetStep
    \/ TimeStep
    \/ SeverityStep
    \/ TraceStep
    \/ ScopeNameStep
    \/ ReconcileStep
    \/ ParsedStep
    \/ CallbackStep
    \/ WriteStep

SpecShared == InitShared /\ [][NextShared]_vars

(***************************************************************************)
(* Well-formedness of the state.                                           *)
(***************************************************************************)
TypeOK ==
    /\ pc \in {"idle", "skip", "get", "parse", "set", "time", "severity", "trace",
               "scope", "reconcile", "parsed", "cb", "write", "done"}
    /\ n \in 0..MaxCalls
    /\ cb \in Callbacks
    /\ logs \in 0..1
    /\ Len(fwd) <= 1
    /\ Len(handled) <= 1

(***************************************************************************)
(* What a call is expected to meet, computed from the entry as it was on   *)
(* entry to the call and from the operator alone.                          *)
(***************************************************************************)
InCall == pc \notin {"idle", "skip"}

Range(q) == {q[i] : i \in 1..Len(q)}

Skipped == Skip(p, entry0).err = Nil /\ Skip(p, entry0).skip

NotSkipped == Skip(p, entry0).err = Nil /\ ~Skip(p, entry0).skip

Source == Get(entry0, p.ParseFrom)

SourceFound == NotSkipped /\ Source.ok

ParseResult == ParseFn(Source.val)

ParseOK == SourceFound /\ ParseResult.err = Nil

(* As the policy leaves the entry: forwarded under send, withheld otherwise. *)
PolicyOutcome(e, x) ==
    /\ handled = <<e>>
    /\ logs = (IF p.OnError = "drop_quiet" THEN 0 ELSE 1)
    /\ fwd = (IF p.OnError = "send" THEN <<x>> ELSE << >>)

(***************************************************************************)
(* C1. Skip identity: when the skip condition evaluates to true the call   *)
(* forwards the entry exactly as received, reads no field, invokes neither *)
(* the parse function, Set, a sub-parser nor the callback, passes nothing  *)
(* to the error policy and returns nil.                                    *)
(***************************************************************************)
C1_SkipIdentity ==
    (InCall /\ Skipped) =>
        /\ pc = "done"
        /\ ev = <<"skip">>
        /\ entry = entry0
        /\ fwd = <<entry0>>
        /\ handled = << >>
        /\ value = NoValue
        /\ newValue = NoValue
        /\ ret = Nil

(* A skipped entry whose parse_from is present, on an operator with every *)
(* sub-parser configured, in a call given a callback.                     *)
C1_Witness ==
    /\ pc = "done"
    /\ Skipped
    /\ Source.ok
    /\ cb = "edit"
    /\ p.TimeParser.set /\ p.SeverityParser.set
    /\ p.TraceParser.set /\ p.ScopeNameParser.set
    /\ fwd = <<entry0>>

(***************************************************************************)
(* C2. Missing source: when the entry is not skipped and parse_from is not *)
(* found, the entry is left as it was, neither the parse function nor Set  *)
(* nor a sub-parser nor the callback is invoked, and the error is          *)
(* MissingField, passed once to the error policy and returned.             *)
(***************************************************************************)
C2_MissingSource ==
    (pc \notin {"idle", "skip", "get"} /\ NotSkipped /\ ~Source.ok) =>
        /\ pc \in {"parsed", "done"}
        /\ ev = <<"skip", "get">>
        /\ entry = entry0
        /\ PolicyOutcome(<<"MissingField">>, entry0)
        /\ err = <<"MissingField">>
        /\ pc = "done" => ret = <<"MissingField">>

C2_Witness ==
    /\ pc = "done"
    /\ NotSkipped
    /\ ~Source.ok
    /\ p.ParseFrom = BodyField(<<"msg">>)
    /\ p.TimeParser.set
    /\ cb = "ok"
    /\ ret = <<"MissingField">>

(***************************************************************************)
(* C3. Parse-function failure: when the parse function returns an error,   *)
(* parse_to is not written, no sub-parser and no callback runs, the entry  *)
(* is as it was on entry to the call, and the error goes once through the  *)
(* error policy and is returned.                                           *)
(***************************************************************************)
C3_ParseFailureStops ==
    (pc \notin {"idle", "skip", "get", "parse"} /\ SourceFound
            /\ ParseResult.err # Nil) =>
        /\ pc \in {"parsed", "done"}
        /\ ev = <<"skip", "get", "parse">>
        /\ entry = entry0
        /\ PolicyOutcome(ParseResult.err, entry0)
        /\ err = ParseResult.err
        /\ pc = "done" => ret = ParseResult.err

C3_Witness ==
    /\ pc = "done"
    /\ SourceFound
    /\ ParseResult.err # Nil
    /\ p.ScopeNameParser.set /\ p.TraceParser.set
    /\ cb = "ok"
    /\ ret = <<"ParseFunctionError">>
    /\ entry = entry0

(***************************************************************************)
(* The enrichment phase, as expected from the entry and the operator.      *)
(***************************************************************************)
SetResult == Set(entry0, p.ParseTo, ParseResult.val)

(* parse_to has been written successfully. *)
Enriched == ParseOK /\ SetResult.err = Nil

Slots == <<"timestamp", "severity", "trace", "scope">>

SubParserOf(slot) ==
    CASE slot = "timestamp" -> p.TimeParser
      [] slot = "severity" -> p.SeverityParser
      [] slot = "trace" -> p.TraceParser
      [] slot = "scope" -> p.ScopeNameParser

(* The outcome each sub-parser left in its local of ParseWith, in the     *)
(* fixed order, and the context its error is wrapped with.                *)
Outcomes == <<timeParseErr, severityParseErr, traceParseErr, scopeNameParserErr>>

Contexts == <<"time parser", "severity parser", "trace parser", "scope_name parser">>

EventOf == <<"time", "severity", "trace", "scope">>

Failing == {i \in 1..Len(Slots) : Outcomes[i] # Nil}

First(S) == CHOOSE i \in S : \A j \in S : i <= j

(* ParseWith has run its sub-parser phase and the callback has not run. *)
AfterSubParsers ==
    \/ pc \in {"reconcile", "parsed"}
    \/ pc = "done" /\ handled # << >>

(***************************************************************************)
(* C4. Fixed-priority single error: the one error ParseWith reports (to    *)
(* the error policy and to its caller) is that of the first failing        *)
(* sub-parser in the order time, severity, trace, scope-name, wrapped with *)
(* that sub-parser's name; a lower-priority failure is never reported      *)
(* while a higher-priority sub-parser failed.                              *)
(***************************************************************************)
C4_FixedPriorityError ==
    (pc \in {"parsed", "cb", "write", "done"} /\ Failing # {}) =>
        LET i == First(Failing)
            reported == <<Contexts[i]>> \o Outcomes[i]
        IN  /\ pc \in {"parsed", "done"}
            /\ handled = <<reported>>
            /\ err = reported
            /\ pc = "done" => ret = reported

(* Time and severity both fail: the time error is the one reported. *)
C4_Witness ==
    /\ pc = "done"
    /\ timeParseErr # Nil
    /\ severityParseErr # Nil
    /\ ret = <<"time parser", "TimeParseError", "invalid">>
    /\ handled = <<ret>>

(***************************************************************************)
(* C5. Independent enrichment: once parse_to is written, every configured  *)
(* sub-parser is invoked exactly once, in the order time, severity, trace, *)
(* scope-name, whatever the others returned, and each one that succeeds    *)
(* has populated its slot with the value it converted.                     *)
(***************************************************************************)
C5_IndependentEnrichment ==
    (AfterSubParsers /\ Enriched) =>
        /\ ev = <<"skip", "get", "parse", "set">>
                \o SelectSeq(EventOf, LAMBDA x :
                       \E i \in 1..Len(Slots) : EventOf[i] = x /\ SubParserOf(Slots[i]).set)
        /\ \A i \in 1..Len(Slots) :
            LET sp == SubParserOf(Slots[i])
                r == SubParse(Slots[i], sp, SetResult.e)
            IN  sp.set =>
                    /\ Outcomes[i] = r.err
                    /\ r.err = Nil =>
                        /\ entry[Slots[i]] = r.e[Slots[i]]
                        /\ entry[Slots[i]] \notin {"unset", entry0[Slots[i]]}

(* The time sub-parser fails, trace and scope-name succeed. *)
C5_Witness ==
    /\ pc = "done"
    /\ Enriched
    /\ timeParseErr # Nil
    /\ p.TraceParser.set /\ traceParseErr = Nil
    /\ p.ScopeNameParser.set /\ scopeNameParserErr = Nil
    /\ entry.timestamp = "unset"
    /\ entry.trace = "trace-01"
    /\ entry.scope = "scope-two"
    /\ ret = Wrap(timeParseErr, "time parser")

(***************************************************************************)
(* C6. Callback-error asymmetry: an error of the callback is not passed to *)
(* the error policy (nothing handled, nothing logged), is the value the    *)
(* call returns, and the entry is not forwarded, whatever on_error is.     *)
(***************************************************************************)
C6_CallbackErrorBypassesPolicy ==
    (InCall /\ "cb" \in Range(ev) /\ err # Nil) =>
        /\ pc = "done"
        /\ ret = err
        /\ handled = << >>
        /\ logs = 0
        /\ fwd = << >>
        /\ n \notin Range(out)

C6_Witness ==
    /\ pc = "done"
    /\ "cb" \in Range(ev)
    /\ cb = "fail"
    /\ p.OnError = "send"
    /\ ret = <<"CallbackError">>
    /\ fwd = << >>

(***************************************************************************)
(* C7. Drop policy: under on_error = drop or drop_quiet an entry that      *)
(* meets a failure the policy handles (skip-condition error, missing       *)
(* parse_from, parse-function error, parse_to write error, sub-parser      *)
(* error) is never handed to the next stage.                               *)
(***************************************************************************)
SubParserFailure ==
    /\ Enriched
    /\ \E i \in 1..Len(Slots) :
        /\ SubParserOf(Slots[i]).set
        /\ SubParse(Slots[i], SubParserOf(Slots[i]), SetResult.e).err # Nil

PolicyFailure ==
    \/ Skip(p, entry0).err # Nil
    \/ NotSkipped /\ ~Source.ok
    \/ SourceFound /\ ParseResult.err # Nil
    \/ ParseOK /\ SetResult.err # Nil
    \/ SubParserFailure

C7_DropNeverForwards ==
    (InCall /\ p.OnError \in {"drop", "drop_quiet"} /\ PolicyFailure) =>
        /\ fwd = << >>
        /\ n \notin Range(out)
        /\ pc = "done" => Len(handled) = 1 /\ ret = handled[1]

(* A dropped entry that was already partly enriched. *)
C7_Witness ==
    /\ pc = "done"
    /\ p.OnError = "drop_quiet"
    /\ SubParserFailure
    /\ entry # entry0
    /\ cb = "ok"
    /\ fwd = << >>

(***************************************************************************)
(* C8. Send policy: under on_error = send an entry that meets a failure    *)
(* the policy handles is forwarded once, as it is at the point of failure: *)
(* as received for a missing parse_from or a parse-function error; with    *)
(* parse_to written, the slots of the sub-parsers that succeeded populated *)
(* and every other slot as received, for a sub-parser error.               *)
(***************************************************************************)
C8_SendForwardsAsFailed ==
    (pc = "done" /\ p.OnError = "send" /\ PolicyFailure) =>
        /\ fwd = <<entry>>
        /\ Len(handled) = 1
        /\ (NotSkipped /\ ~Source.ok) => fwd[1] = entry0
        /\ (SourceFound /\ ParseResult.err # Nil) => fwd[1] = entry0
        /\ SubParserFailure =>
            /\ Get(fwd[1], p.ParseTo).ok
            /\ Get(fwd[1], p.ParseTo).val = ParseResult.val
            /\ \A c \in {"body", "attributes", "resource"} \ {p.ParseTo.c} :
                fwd[1][c] = entry0[c]
            /\ \A i \in 1..Len(Slots) :
                LET sp == SubParserOf(Slots[i])
                    r == SubParse(Slots[i], sp, SetResult.e)
                IN  fwd[1][Slots[i]] =
                        (IF sp.set /\ r.err = Nil
                         THEN Conversion[Slots[i]][Get(SetResult.e, sp.ParseFrom).val[<< >>]]
                         ELSE entry0[Slots[i]])

(* A partially enriched entry is sent on: time failed and kept the value  *)
(* it arrived with, severity succeeded.                                   *)
C8_Witness ==
    /\ pc = "done"
    /\ p.OnError = "send"
    /\ SubParserFailure
    /\ timeParseErr # Nil
    /\ p.SeverityParser.set
    /\ Len(fwd) = 1
    /\ fwd[1].timestamp = Preset[1]
    /\ fwd[1].severity = "Info"
    /\ fwd[1].attributes # entry0.attributes

(***************************************************************************)
(* C9. Success path.                                                       *)
(***************************************************************************)
ApplySub(i, e) ==
    IF SubParserOf(Slots[i]).set
    THEN SubParse(Slots[i], SubParserOf(Slots[i]), e).e
    ELSE e

(* The entry as ParseWith leaves it when parse_to is written. *)
EnrichedEntry == ApplySub(4, ApplySub(3, ApplySub(2, ApplySub(1, SetResult.e))))

(* The entry as the callback of the call leaves it. *)
AfterCallback(e) == IF cb = "nil" THEN e ELSE RunCallback(cb, e).e

SuccessPath ==
    /\ Enriched
    /\ ~SubParserFailure
    /\ cb # "nil" => RunCallback(cb, EnrichedEntry).err = Nil

(* The forwarded entry holds the parse result at parse_to and a populated *)
(* slot for every configured sub-parser.                                  *)
HoldsParseResult(e) ==
    /\ Get(e, p.ParseTo).ok
    /\ Get(e, p.ParseTo).val = ParseResult.val
    /\ \A i \in 1..Len(Slots) :
        SubParserOf(Slots[i]).set =>
            /\ e[Slots[i]] \in {Conversion[Slots[i]][k] : k \in DOMAIN Conversion[Slots[i]]}
            /\ e[Slots[i]] = Conversion[Slots[i]][
                   Get(SetResult.e, SubParserOf(Slots[i]).ParseFrom).val[<< >>]]

(* C9 as stated: on the success path the entry is forwarded with parse_to  *)
(* holding the parse result and every configured sub-parser's slot         *)
(* populated, and the call returns nil.                                    *)
C9_AsStated ==
    (pc = "done" /\ SuccessPath) =>
        /\ ret = Nil
        /\ Len(fwd) = 1
        /\ HoldsParseResult(fwd[1])

(* C9, amended: on the success path the call returns nil and the entry is  *)
(* forwarded exactly once, as the callback left it; it holds the parse     *)
(* result at parse_to and a populated slot for every configured sub-parser *)
(* when there is no callback or the callback did not modify the entry.     *)
C9_SuccessForwards ==
    (pc = "done" /\ SuccessPath) =>
        /\ ret = Nil
        /\ handled = << >>
        /\ fwd = <<entry>>
        /\ fwd[1] = AfterCallback(EnrichedEntry)
        /\ AfterCallback(EnrichedEntry) = EnrichedEntry => HoldsParseResult(fwd[1])

C9_Witness ==
    /\ pc = "done"
    /\ SuccessPath
    /\ cb = "ok"
    /\ p.TimeParser.set /\ p.SeverityParser.set
    /\ p.TraceParser.set /\ p.ScopeNameParser.set
    /\ fwd = <<entry>>
    /\ HoldsParseResult(fwd[1])
    /\ fwd[1].timestamp = "2021-01-01T00:00:00Z"
    /\ fwd[1].severity = "Error"

(***************************************************************************)
(* C10. Order preservation: the next stage receives an entry only during   *)
(* the call made for that entry, and after every entry of an earlier call  *)
(* it received; so what it receives is a subsequence of the input, in      *)
(* input order.                                                            *)
(***************************************************************************)
C10_OrderPreserved ==
    [][out' # out =>
        /\ pc \notin {"idle", "done"}
        /\ n' = n
        /\ out' = Append(out, n)
        /\ \A i \in 1..Len(out) : out[i] < n
        /\ fwd' = Append(fwd, entry')]_vars

(* The first entry was withheld, the second one forwarded. *)
C10_Witness ==
    /\ pc = "done"
    /\ n = 2
    /\ out = <<2>>
    /\ p.OnError = "drop"
    /\ fwd = <<entry>>

(***************************************************************************)
(* C11: a failure the error policy handles writes exactly one log line     *)
(* under send and under drop and none under drop_quiet, and a call without  *)
(* such a failure writes none; when the parse function fails under drop the *)
(* entry is not forwarded, one line is logged and the entry is as it        *)
(* arrived.                                                                 *)
(***************************************************************************)
ParseFunctionFails == SourceFound /\ ParseResult.err # Nil

C11_OneLogPerFailure ==
    pc = "done" =>
        /\ logs = (IF PolicyFailure /\ p.OnError # "drop_quiet" THEN 1 ELSE 0)
        /\ (ParseFunctionFails /\ p.OnError = "drop") =>
                /\ logs = 1
                /\ fwd = << >>
                /\ n \notin Range(out)
                /\ entry = entry0

C11_Witness ==
    /\ pc = "done"
    /\ ParseFunctionFails
    /\ p.OnError = "drop"
    /\ handled = <<ParseResult.err>>
    /\ logs = 1
    /\ fwd = << >>

(***************************************************************************)
(* C12: one operator with a pure parse function gives two entries whose     *)
(* parse_from values are identical the same parse_to, timestamp, severity,  *)
(* trace and scope name, whatever else the entries contain.  The two        *)
(* entries are those of the two calls, neither of them skipped; no callback *)
(* is involved.                                                             *)
(***************************************************************************)
BothDone == pc = "done" /\ other.pc = "done"

SameSource ==
    /\ Get(entry0, p.ParseFrom).ok
    /\ Get(entry0, p.ParseFrom) = Get(other.entry0, p.ParseFrom)

Results(c) ==
    <<Get(c.entry, p.ParseTo), c.entry.timestamp, c.entry.severity,
      c.entry.trace, c.entry.scope>>

SubConfigs == {"TimeParser", "Config", "TraceParser", "ScopeNameParser"}

InvalidConfig ==
    \/ ~config.transformerValid
    \/ \E k \in SubConfigs : config[k].set /\ ~config[k].valid

C13_InvalidConfigNeverBuilds ==
    InvalidConfig =>
        /\ buildErr # Nil
        /\ p = ZeroOperator
        /\ pc = "idle"
        /\ n = 0

(***************************************************************************)
(* C14: the resource mapping of an entry is the same after a call as       *)
(* before it, for every parse_from and parse_to, those addressing a key    *)
(* inside resource included.                                               *)
(***************************************************************************)
C14_AsStated ==
    pc # "idle" => entry.resource = entry0.resource

(* C14, amended: with a callback that leaves resource alone, resource is   *)
(* as it arrived unless parse_to addresses resource; then it is as it      *)
(* arrived until the parse result is written, and afterwards differs from  *)
(* that by the parse result at parse_to alone.                             *)
CallbackKeepsResource ==
    cb = "nil" \/ RunCallback(cb, entry).e.resource = entry.resource

C14_ResourceChangesOnlyAtParseTo ==
    (pc # "idle" /\ CallbackKeepsResource) =>
        IF p.ParseTo.c = "resource" /\ Enriched /\ pc \notin {"skip", "get", "parse", "set"}
        THEN entry.resource = Graft(entry0.resource, p.ParseTo.path, ParseResult.val)
        ELSE entry.resource = entry0.resource

C14_Witness ==
    /\ pc = "done"
    /\ p.ParseTo.c = "resource"
    /\ entry.resource # entry0.resource
    /\ Get(entry, p.ParseTo).val = ParseResult.val
    /\ fwd = <<entry>>

(***************************************************************************)
(* C15: the Get of parse_from leaves the entry as it is, found or not; the  *)
(* Set of parse_to fails exactly when an existing non-mapping value stands  *)
(* on the path, and then leaves the entry as it is, the blocking value      *)
(* included; otherwise it puts the value at parse_to, makes every missing   *)
(* intermediate segment a mapping and keeps everything off the path.        *)
(***************************************************************************)
ProperPrefixes(path) == {SubSeq(path, 1, i) : i \in 0..(Len(path) - 1)}

BlockingValues(e, f) ==
    {q \in ProperPrefixes(f.path) : q \in DOMAIN e[f.c] /\ e[f.c][q] # "MAP"}

SetFailed == handled' # handled

SetWritten(e, f, v, x) ==
    /\ Get(x, f) = [ok |-> TRUE, val |-> v]
    /\ \A q \in ProperPrefixes(f.path) : q \in DOMAIN x[f.c] /\ x[f.c][q] = "MAP"
    /\ \A r \in DOMAIN e[f.c] :
            ~IsPrefix(f.path, r) => r \in DOMAIN x[f.c] /\ x[f.c][r] = e[f.c][r]
    /\ \A c \in {"body", "attributes", "resource"} \ {f.c} : x[c] = e[c]

C15_FieldContract ==
    [][/\ pc = "get" => entry' = entry
       /\ pc = "set" =>
            IF BlockingValues(entry, p.ParseTo) # {}
            THEN SetFailed /\ entry' = entry
            ELSE ~SetFailed /\ SetWritten(entry, p.ParseTo, newValue, entry')]_vars

C15_Witness ==
    /\ pc = "parsed"
    /\ ev = <<"skip", "get", "parse", "set">>
    /\ BlockingValues(entry0, p.ParseTo) = {<<"ts">>}
    /\ handled = <<Wrap(SetResult.err, "set parse_to")>>
    /\ entry = entry0
    /\ Get(entry, AttributeField(<<"ts">>)).val = Scalar("v2")

(***************************************************************************)
(* C16: a call hands an error to the error policy exactly once when the    *)
(* skip condition, the Get, the parse function, the Set or a sub-parser    *)
(* fails, and never otherwise, a failing callback included; once a call    *)
(* has returned, failed or not, the operator takes the next entry.         *)
(***************************************************************************)
CallbackOnlyFailure == pc = "done" /\ ~PolicyFailure /\ ret # Nil

C16_PolicyAppliedOnce ==
    /\ Len(handled) <= 1
    /\ pc = "done" => Len(handled) = (IF PolicyFailure THEN 1 ELSE 0)
    /\ CallbackOnlyFailure => ret = <<"CallbackError">> /\ handled = << >> /\ logs = 0
    /\ (pc = "done" /\ n < MaxCalls) => ENABLED StartCall

C16_Witness ==
    /\ pc = "done"
    /\ n = 1
    /\ SubParserFailure
    /\ handled = <<ret>>
    /\ p.OnError = "drop"
    /\ out = << >>
    /\ ENABLED StartCall

(***************************************************************************)
(* C17: when the Set of parse_to fails, no sub-parser runs and the callback *)
(* is not invoked, the timestamp, severity, trace and scope name of the     *)
(* entry are as they arrived, and the Set error, wrapped as the parse_to    *)
(* set failure, goes once through the error policy and is returned.         *)
(***************************************************************************)
SetFails == ParseOK /\ SetResult.err # Nil

SetFailure == Wrap(SetResult.err, "set parse_to")

C17_SetFailureStops ==
    (pc \notin {"idle", "skip", "get", "parse", "set"} /\ SetFails) =>
        /\ pc \in {"parsed", "done"}
        /\ ev = <<"skip", "get", "parse", "set">>
        /\ \A s \in Range(Slots) : entry[s] = entry0[s]
        /\ entry = entry0
        /\ Outcomes = <<Nil, Nil, Nil, Nil>>
        /\ PolicyOutcome(SetFailure, entry0)
        /\ err = SetFailure
        /\ pc = "done" => ret = SetFailure

C17_Witness ==
    /\ pc = "done"
    /\ SetFails
    /\ p.TimeParser.set
    /\ Get(entry0, p.TimeParser.ParseFrom).val = Scalar("v2")
    /\ cb = "edit"
    /\ entry.timestamp = Preset[1]
    /\ ret = <<"set parse_to", "SetFieldError: blocked">>

(***************************************************************************)
(* C18: within a call the callback is invoked at most once, and only for   *)
(* an entry that was not skipped, whose parse step succeeded and whose      *)
(* configured sub-parsers all succeeded; it is handed the entry with every  *)
(* mutation of the parse and sub-parser steps already made, before the      *)
(* entry is forwarded, and after it nothing but the forward happens; an     *)
(* entry that went through the error policy never reaches the callback.     *)
(***************************************************************************)
CallbackInvoked == "cb" \in Range(ev)

IsConfigured(x) == \E i \in 1..Len(Slots) : EventOf[i] = x /\ SubParserOf(Slots[i]).set

ParseEvents == <<"skip", "get", "parse", "set">> \o SelectSeq(EventOf, IsConfigured)

C18_CallbackGated ==
    [][n' = n =>
        /\ (~CallbackInvoked /\ CallbackInvoked') =>
                /\ cb # "nil"
                /\ NotSkipped /\ Enriched /\ ~SubParserFailure
                /\ Outcomes = <<Nil, Nil, Nil, Nil>> /\ err = Nil
                /\ ev = ParseEvents
                /\ entry = EnrichedEntry
                /\ handled = << >> /\ fwd = << >>
                /\ ev' = Append(ev, "cb")
                /\ entry' = RunCallback(cb, entry).e
                /\ UNCHANGED <<handled, fwd>>
        /\ CallbackInvoked =>
                /\ ev' = ev /\ entry' = entry /\ handled' = handled
                /\ fwd' # fwd => fwd' = <<entry>>
        /\ handled # << >> => ~CallbackInvoked']_vars

C18_Witness ==
    /\ pc = "write"
    /\ CallbackInvoked
    /\ cb = "edit"
    /\ ev = Append(ParseEvents, "cb")
    /\ Len(ParseEvents) = 8
    /\ entry = RunCallback(cb, EnrichedEntry).e
    /\ entry # EnrichedEntry
    /\ fwd = << >>

(***************************************************************************)
(* C19: once a call has handed its entry to the next stage, by the skip    *)
(* path, the success path or the send policy, it makes no further write on  *)
(* that entry and invokes no collaborator on it: no parse_to write, no      *)
(* sub-parser, no callback.                                                 *)
(***************************************************************************)
Forwarded == fwd # << >>

C19_NoMutationAfterForward ==
    [][(Forwarded /\ n' = n) =>
            /\ entry' = entry
            /\ ev' = ev
            /\ fwd[1] = entry']_vars

(* A sub-parser failed under send: the policy has forwarded the entry and  *)
(* the call, given a callback, has not returned yet.                       *)
C19_Witness ==
    /\ pc = "parsed"
    /\ Forwarded
    /\ p.OnError = "send"
    /\ SubParserFailure
    /\ cb = "edit"
    /\ fwd = <<entry>>
    /\ entry # entry0

(***************************************************************************)
(* C20: no step of ProcessWithCallback or ParseWith modifies the built      *)
(* ParserOperator, and when two calls on distinct entries share one         *)
(* operator and interleave in any way, each call ends with the entry, the   *)
(* forward or drop and the returned error it would have ended with alone.   *)
(***************************************************************************)
(* What a call on entry e0 with callback k, running alone, ends with. *)
Failed(e, x) ==
    [entry |-> x, ret |-> e, fwd |-> IF p.OnError = "send" THEN <<x>> ELSE << >>]

Sent(x) == [entry |-> x, ret |-> Nil, fwd |-> <<x>>]

AloneSub(i, r) ==
    IF SubParserOf(Slots[i]).set
    THEN LET s == SubParse(Slots[i], SubParserOf(Slots[i]), r.e)
         IN  [e |-> s.e, errs |-> Append(r.errs, s.err)]
    ELSE [e |-> r.e, errs |-> Append(r.errs, Nil)]

AloneCallback(x, k) ==
    IF k = "nil" THEN Sent(x)
    ELSE LET c == RunCallback(k, x)
         IN  IF c.err # Nil THEN [entry |-> c.e, ret |-> c.err, fwd |-> << >>]
             ELSE Sent(c.e)

AloneEnrich(x, k) ==
    LET r == AloneSub(4, AloneSub(3, AloneSub(2, AloneSub(1, [e |-> x, errs |-> << >>]))))
        bad == {i \in 1..Len(Slots) : r.errs[i] # Nil}
    IN  IF bad # {} THEN Failed(Wrap(r.errs[First(bad)], Contexts[First(bad)]), r.e)
        ELSE AloneCallback(r.e, k)

AloneParse(e0, k) ==
    LET g == Get(e0, p.ParseFrom)
        r == ParseFn(g.val)
        st == Set(e0, p.ParseTo, r.val)
    IN  IF ~g.ok THEN Failed(<<"MissingField">>, e0)
        ELSE IF r.err # Nil THEN Failed(r.err, e0)
        ELSE IF st.err # Nil THEN Failed(Wrap(st.err, "set parse_to"), e0)
        ELSE AloneEnrich(st.e, k)

Alone(e0, k) ==
    LET sk == Skip(p, e0)
    IN  IF sk.err # Nil THEN Failed(sk.err, e0)
        ELSE IF sk.skip THEN Sent(e0)
        ELSE AloneParse(e0, k)

AsAlone(c) ==
    c.pc = "done" =>
        [entry |-> c.entry, ret |-> c.ret, fwd |-> c.fwd] = Alone(c.entry0, c.cb)

C20_SharedOperatorReadOnly ==
    /\ [][p' = p]_vars
    /\ [](AsAlone(Running) /\ AsAlone(other))

(* Two different entries, the second call's forwarded before the first's, *)
(* one call failed in a sub-parser and the other forwarded after its       *)
(* callback.                                                               *)
C20_Witness ==
    /\ BothDone
    /\ entry0 # other.entry0
    /\ out = <<2, 1>>
    /\ n = 1
    /\ ret # Nil /\ handled = <<ret>>
    /\ other.ret = Nil /\ other.cb = "edit"
    /\ AsAlone(Running) /\ AsAlone(other)

(***************************************************************************)
(* C21: up to the callback, a slot of the entry (timestamp, severity,      *)
(* trace, scope name) differs from the value the entry arrived with only   *)
(* when its sub-parser is configured and its Parse succeeds, and then      *)
(* holds what that Parse produced once the sub-parser has run; a slot      *)
(* whose sub-parser is not configured or fails is as it arrived.           *)
(***************************************************************************)
SlotParse(i) == SubParse(Slots[i], SubParserOf(Slots[i]), SetResult.e)

SlotParsed(i) ==
    Enriched /\ SubParserOf(Slots[i]).set /\ SlotParse(i).err = Nil

C21_SlotFrame ==
    (pc # "idle" /\ ~CallbackInvoked) =>
        \A i \in 1..Len(Slots) :
            IF SlotParsed(i)
            THEN /\ entry[Slots[i]] \in {entry0[Slots[i]], SlotParse(i).e[Slots[i]]}
                 /\ pc \in {"reconcile", "parsed", "cb", "write", "done"} =>
                        entry[Slots[i]] = SlotParse(i).e[Slots[i]]
            ELSE entry[Slots[i]] = entry0[Slots[i]]

(* The time parser failed, the severity parser succeeded, no scope-name    *)
(* parser: on an entry that arrived with every slot set.                   *)
C21_Witness ==
    /\ pc = "reconcile"
    /\ <<entry0.timestamp, entry0.severity, entry0.trace, entry0.scope>> = Preset
    /\ p.TimeParser.set /\ ~SlotParsed(1)
    /\ SlotParsed(2)
    /\ ~p.ScopeNameParser.set
    /\ entry.timestamp = Preset[1]
    /\ entry.severity = "Info"
    /\ entry.scope = Preset[4]

(***************************************************************************)
(* C22: every call that has been entered returns, and returns in exactly   *)
(* one of three ways: the entry forwarded and no error; an error handled   *)
(* by the error policy (forwarded under send, withheld otherwise) and      *)
(* returned; or the callback's error returned with nothing forwarded.      *)
(* Nothing cuts the call short after the parse_to write: an entry is never *)
(* forwarded with only some of the configured sub-parsers attempted.       *)
(***************************************************************************)
InFlight == pc \notin {"idle", "done"}

EndedForwarded == ret = Nil /\ handled = << >> /\ fwd = <<entry>>

EndedByPolicy ==
    /\ ret # Nil /\ handled = <<ret>>
    /\ fwd = (IF p.OnError = "send" THEN <<entry>> ELSE << >>)

EndedByCallback ==
    /\ ret = <<"CallbackError">> /\ handled = << >> /\ fwd = << >>
    /\ CallbackInvoked

Attempted == {i \in 1..Len(Slots) : EventOf[i] \in Range(ev)}

Configured == {i \in 1..Len(Slots) : SubParserOf(Slots[i]).set}

OneOutcome ==
    pc = "done" =>
        /\ EndedForwarded \/ EndedByPolicy \/ EndedByCallback
        /\ ~(EndedForwarded /\ EndedByPolicy)
        /\ ~(EndedForwarded /\ EndedByCallback)
        /\ ~(EndedByPolicy /\ EndedByCallback)

NeverForwardedHalfway ==
    /\ Forwarded => Attempted \in {{}, Configured}
    /\ (Forwarded /\ "set" \in Range(ev) /\ SetResult.err = Nil) => Attempted = Configured

C22_RunToCompletion ==
    /\ [](OneOutcome /\ NeverForwardedHalfway)
    /\ InFlight ~> pc = "done"

(* The time parser failed under send: the entry is forwarded by the policy *)
(* after all four sub-parsers were attempted.                              *)
C22_Witness ==
    /\ pc = "done"
    /\ EndedByPolicy
    /\ p.OnError = "send"
    /\ ret[1] = "time parser"
    /\ Attempted = {1, 2, 3, 4}
    /\ Forwarded

(***************************************************************************)
(* C23: a call hands its entry to the next stage at most once, on every    *)
(* path and under every on_error, so that the next stage receives no entry *)
(* twice; under send an entry forwarded by the error policy is not         *)
(* forwarded again by the Write that ends the success path.                *)
(***************************************************************************)
Received(i) == {j \in 1..Len(out) : out[j] = i}

C23_ForwardAtMostOnce ==
    /\ Len(fwd) <= 1
    /\ \A i \in 1..MaxCalls : Cardinality(Received(i)) <= 1
    /\ Cardinality(Received(n)) = Len(fwd)
    /\ (pc = "done" /\ PolicyFailure /\ p.OnError = "send") => fwd = <<entry>>

C23_Witness ==
    /\ pc = "done"
    /\ n = 2
    /\ PolicyFailure
    /\ p.OnError = "send"
    /\ cb = "ok"
    /\ out = <<1, 2>>
    /\ fwd = <<entry>>

(***************************************************************************)
(* C24: when evaluating the skip condition returns an error, the error     *)
(* goes once through the error policy and is returned; parse_from is not   *)
(* read, neither the parse function nor Set nor a sub-parser nor the       *)
(* callback is invoked, the entry is as it arrived, and it is forwarded    *)
(* only under send.                                                        *)
(***************************************************************************)
SkipFails == Skip(p, entry0).err # Nil

C24_SkipErrorHandled ==
    (pc \notin {"idle", "skip"} /\ SkipFails) =>
        /\ pc = "done"
        /\ ev = <<"skip">>
        /\ value = NoValue /\ newValue = NoValue
        /\ entry = entry0
        /\ PolicyOutcome(Skip(p, entry0).err, entry0)
        /\ Forwarded <=> p.OnError = "send"
        /\ ret = Skip(p, entry0).err

(* The entry's parse_from is there, every sub-parser is configured and the *)
(* call has a callback; the policy withholds the entry.                    *)
C24_Witness ==
    /\ pc = "done"
    /\ SkipFails
    /\ Source.ok
    /\ p.TimeParser.set /\ p.ScopeNameParser.set
    /\ cb = "edit"
    /\ p.OnError = "drop"
    /\ handled = <<<<"SkipError">>>>
    /\ fwd = << >>

(***************************************************************************)
(* C25: a call returns nil exactly when the entry was skipped or the       *)
(* parse, the parse_to write, every configured sub-parser and the callback *)
(* all succeeded; a failure that went through the error policy is returned *)
(* to the caller, also when the policy forwarded the entry under send, so  *)
(* that an entry can be forwarded by a call that returns an error.         *)
(***************************************************************************)
C25_ReturnValue ==
    pc = "done" =>
        /\ ret = Nil <=> (Skipped \/ SuccessPath)
        /\ PolicyFailure =>
                /\ ret # Nil
                /\ handled = <<ret>>
                /\ Forwarded <=> p.OnError = "send"
        /\ (~PolicyFailure /\ ~Skipped /\ ~SuccessPath) =>
                ret = <<"CallbackError">> /\ ~Forwarded

(* Forwarded by the send policy and an error returned. *)
C25_Witness ==
    /\ pc = "done"
    /\ PolicyFailure
    /\ p.OnError = "send"
    /\ fwd = <<entry>>
    /\ n \in Range(out)
    /\ ret = <<"severity parser", "SeverityParseError", "invalid">>

====
